---- MODULE Spec2Model ----
(***************************************************************************)
(* Model of SimpleConfigTool (src/main.py): the class-model builder, the   *)
(* hierarchy and metadata generators, the config delta engine and the      *)
(* control flow of main() with its output files.                           *)
(***************************************************************************)
EXTENDS Integers, Sequences, FiniteSets, TLC

VARIABLES
    pc,              \* position in main()
    exists_,         \* which of the three input files exist
    xml_doc,         \* content of impulse_test_input.xml
    config_json,     \* content of config.json
    patched_json,    \* content of patched_config.json
    classes,         \* ModelParser.classes (insertion-ordered dict)
    aggregations,    \* ModelParser.aggregations
    root_class,      \* main: root_class
    config_root,     \* main: config_root
    meta,            \* main: meta
    config,          \* main: config
    patched_config,  \* main: patched_config
    delta,           \* main: delta
    res_patched,     \* main: res_patched
    out,             \* files written to OUTPUT_DIR by this run
    error,           \* the exception that ended the run, if any
    exit_status      \* process exit status once the run has ended

vars == <<pc, exists_, xml_doc, config_json, patched_json, classes, aggregations,
          root_class, config_root, meta, config, patched_config, delta,
          res_patched, out, error, exit_status>>

None == "None"

\* ---------------------------------------------------------------- bounds
MaxAggs == 2
MaxKeys == 2

\* ------------------------------------------------------- generic helpers
\* All enumerations of the finite set S as a sequence without repetition:
\* the orders in which Python may iterate a set.
Orders(S) ==
    {s \in [1..Cardinality(S) -> S] : \A i, j \in 1..Cardinality(S) : s[i] = s[j] => i = j}

SeqsUpTo(S, n) == UNION {[1..k -> S] : k \in 0..n}

Range(s) == {s[i] : i \in 1..Len(s)}

\* ------------------------------------------------ JSON values and Python ==
\* Scalars json.load can produce.  Python compares them with ==: True == 1,
\* and NaN is unequal to everything including itself.
JsonScalars == {"1", "2", "true", "NaN"}

Num(v) == IF v = "true" THEN "1" ELSE v

PyEq(a, b) == a # "NaN" /\ b # "NaN" /\ Num(a) = Num(b)

PyNe(a, b) == ~PyEq(a, b)

\* A loaded value is an object: its value and its identity (the document and
\* key it was loaded from).
Obj(doc, k, v) == [val |-> v, id |-> <<doc, k>>]

\* json.load of a document whose content is the key -> scalar map m.
json_load(doc, m) == [k \in DOMAIN m |-> Obj(doc, k, m[k])]

\* Element comparison inside dict.__eq__: identity first, then ==.
ObjEq(x, y) == x.id = y.id \/ PyEq(x.val, y.val)

DictEq(d, e) == DOMAIN d = DOMAIN e /\ \A k \in DOMAIN d : ObjEq(d[k], e[k])

Keys == {"a", "b", "c"}

KeySets == {S \in SUBSET Keys : Cardinality(S) <= MaxKeys}

FlatMaps == UNION {[S -> JsonScalars] : S \in KeySets}

\* ------------------------------------------------------ Config Delta Engine
DeltaWrongUpdates(cfg, pcfg, a, d, u) ==
    [additions |-> [i \in 1..Len(a) |-> [key |-> a[i], value |-> pcfg[a[i]]]],
     deletions |-> d,
     updates |-> [i \in 1..Len(u) |-> [key |-> u[i], from |-> cfg[u[i]], to |-> pcfg[u[i]]]]]

\* DeltaJSONGenerator.generate with the iteration orders a, d, u of the three
\* key sets made explicit.
DeltaJSONGenerator_generate(cfg, pcfg, a, d, u) ==
    LET changed == SelectSeq(u, LAMBDA k : PyNe(cfg[k].val, pcfg[k].val))
    IN  [additions |-> [i \in 1..Len(a) |-> [key |-> a[i], value |-> pcfg[a[i]]]],
         deletions |-> d,
         updates |-> [i \in 1..Len(changed) |->
                        [key |-> changed[i], from |-> cfg[changed[i]], to |-> pcfg[changed[i]]]]]

\* dict.pop(key, None)
Pop(d, k) == [x \in DOMAIN d \ {k} |-> d[x]]

\* d[k] = v
SetItem(d, k, v) == [x \in DOMAIN d \cup {k} |-> IF x = k THEN v ELSE d[x]]

RECURSIVE ApplyDeletions(_, _, _)
ApplyDeletions(result, dels, i) ==
    IF i > Len(dels) THEN result
    ELSE ApplyDeletions(Pop(result, dels[i]), dels, i + 1)

RECURSIVE ApplyUpdates(_, _, _)
ApplyUpdates(result, ups, i) ==
    IF i > Len(ups) THEN result
    ELSE ApplyUpdates(SetItem(result, ups[i].key, ups[i].to), ups, i + 1)

RECURSIVE ApplyAdditions(_, _, _)
ApplyAdditions(result, adds, i) ==
    IF i > Len(adds) THEN result
    ELSE ApplyAdditions(SetItem(result, adds[i].key, adds[i].value), adds, i + 1)

ResNoDeletions(cfg, dlt) ==
    ApplyAdditions(ApplyUpdates(cfg, dlt.updates, 1), dlt.additions, 1)

ResPatchedConfigGenerator_generate(cfg, dlt) ==
    ApplyAdditions(ApplyUpdates(ApplyDeletions(cfg, dlt.deletions, 1), dlt.updates, 1),
                   dlt.additions, 1)

\* ------------------------------------------------------------ strings
\* A multiplicity string is a sequence of characters.
Str0 == <<"0">>

\* Index of the first ".." at or after position i, 0 when there is none.
FindDots(s, i) ==
    LET hits == {j \in i..(Len(s) - 1) : s[j] = "." /\ s[j + 1] = "."}
    IN  IF hits = {} THEN 0 ELSE CHOOSE j \in hits : \A h \in hits : j <= h

\* The value of an attribute the element does not carry: elem.get(...) is None.
Absent == <<None>>

\* ".." in s
ContainsDots(s) == FindDots(s, 1) # 0

\* s.split("..")
RECURSIVE split(_)
split(s) ==
    LET j == FindDots(s, 1)
    IN  IF j = 0 THEN <<s>>
        ELSE <<SubSeq(s, 1, j - 1)>> \o split(SubSeq(s, j + 2, Len(s)))

\* ------------------------------------------------------------ the model
ClassNames == {"A", "B", "C"}

ClassInfo(name, is_root, documentation) ==
    [name |-> name, is_root |-> is_root, documentation |-> documentation,
     attributes |-> <<>>, children |-> <<>>, min |-> Str0, max |-> Str0]

Attribute(name, attr_type) == [name |-> name, type |-> attr_type]

\* An insertion-ordered dict: the keys in insertion order and the entries.
EmptyDict == [order |-> <<>>, info |-> [n \in {} |-> 0]]

DictPut(d, k, v) ==
    [order |-> IF k \in DOMAIN d.info THEN d.order ELSE Append(d.order, k),
     info |-> [x \in DOMAIN d.info \cup {k} |-> IF x = k THEN v ELSE d.info[x]]]

FindAll(doc, tag) == SelectSeq(doc, LAMBDA e : e.tag = tag)

\* The class of one <Class> element with its <Attribute> children.
ParseClass(class_elem) ==
    LET class_info == ClassInfo(class_elem.name, class_elem.isRoot = "true",
                                class_elem.documentation)
    IN  [class_info EXCEPT !.attributes =
            [i \in 1..Len(class_elem.attributes) |->
                Attribute(class_elem.attributes[i].name, class_elem.attributes[i].type)]]

RECURSIVE ParseClasses(_, _, _)
ParseClasses(cls, elems, i) ==
    IF i > Len(elems) THEN cls
    ELSE ParseClasses(DictPut(cls, elems[i].name, ParseClass(elems[i])), elems, i + 1)

ParseAggregations(elems) ==
    [i \in 1..Len(elems) |->
        [source |-> elems[i].source, target |-> elems[i].target,
         sourceMultiplicity |-> elems[i].sourceMultiplicity,
         targetMultiplicity |-> elems[i].targetMultiplicity]]

LinkChildrenReversed(cls, agg) ==
    [cls EXCEPT !.info[agg.source].children = Append(@, agg.target)]

\* target_class.children.append(source_class)
LinkChildren(cls, agg) ==
    [cls EXCEPT !.info[agg.target].children = Append(@, agg.source)]

ParseMultiplicityNoSplit(multiplicity) ==
    [error |-> None, min |-> multiplicity, max |-> multiplicity]

\* The multiplicity handling: ".." in None raises TypeError, and
\* min_val, max_val = multiplicity.split("..") raises ValueError unless the
\* split gives two parts.
ParseMultiplicity(multiplicity) ==
    IF multiplicity = Absent
    THEN [error |-> "TypeError", min |-> Str0, max |-> Str0]
    ELSE IF ContainsDots(multiplicity)
    THEN LET parts == split(multiplicity)
         IN  IF Len(parts) = 2
             THEN [error |-> None, min |-> parts[1], max |-> parts[2]]
             ELSE [error |-> "ValueError", min |-> Str0, max |-> Str0]
    ELSE [error |-> None, min |-> multiplicity, max |-> multiplicity]

\* One iteration of the "min/max and links" loop for the edge agg.
LinkOne(cls, agg) ==
    IF agg.source \notin DOMAIN cls.info \/ agg.target \notin DOMAIN cls.info
    THEN [classes |-> cls, error |-> "KeyError"]
    ELSE
    LET linked == LinkChildren(cls, agg)
        m == ParseMultiplicity(agg.sourceMultiplicity)
    IN  IF m.error # None
        THEN [classes |-> linked, error |-> m.error]
        ELSE [classes |-> [linked EXCEPT !.info[agg.source].min = m.min,
                                         !.info[agg.source].max = m.max],
              error |-> None]

RECURSIVE Link(_, _, _)
Link(cls, aggs, i) ==
    IF i > Len(aggs) THEN [classes |-> cls, error |-> None]
    ELSE LET r == LinkOne(cls, aggs[i])
         IN  IF r.error # None THEN r ELSE Link(r.classes, aggs, i + 1)

\* Linking each aggregation as it is met, against the classes met so far.
RECURSIVE ParseInDocumentOrder(_, _, _, _)
ParseInDocumentOrder(cls, aggs, doc, i) ==
    IF i > Len(doc) THEN [classes |-> cls, aggregations |-> aggs, error |-> None]
    ELSE IF doc[i].tag = "Class"
    THEN ParseInDocumentOrder(DictPut(cls, doc[i].name, ParseClass(doc[i])), aggs, doc, i + 1)
    ELSE LET agg == ParseAggregations(<<doc[i]>>)[1]
             r == LinkOne(cls, agg)
         IN  IF r.error # None
             THEN [classes |-> r.classes, aggregations |-> Append(aggs, agg),
                   error |-> r.error]
             ELSE ParseInDocumentOrder(r.classes, Append(aggs, agg), doc, i + 1)

parse_xml_single_pass(doc) == ParseInDocumentOrder(EmptyDict, <<>>, doc, 1)

\* ModelParser.parse_xml on a well-formed document.
parse_xml(doc) ==
    LET cls == ParseClasses(EmptyDict, FindAll(doc, "Class"), 1)
        aggs == ParseAggregations(FindAll(doc, "Aggregation"))
        r == Link(cls, aggs, 1)
    IN  [classes |-> r.classes, aggregations |-> aggs, error |-> r.error]

\* ModelParser.get_root_class: the first root in dict order, None for
\* StopIteration.
get_root_class(cls) ==
    LET roots == {i \in 1..Len(cls.order) : cls.info[cls.order[i]].is_root}
    IN  IF roots = {} THEN None
        ELSE cls.order[CHOOSE i \in roots : \A j \in roots : i <= j]

\* ------------------------------------------------------------ generators
\* The interpreter's recursion limit, scaled to the model: deeper than any
\* acyclic containment path over ClassNames.
RecursionLimit == Cardinality(ClassNames) + 1

Element(tag, text, kids) == [tag |-> tag, text |-> text, kids |-> kids]

NoElement == Element(None, None, <<>>)

GenerateFlat(cls, name, depth) ==
    LET class_info == cls.info[name]
    IN  [ok |-> TRUE,
         elem |-> Element(class_info.name, None,
                          [i \in 1..Len(class_info.attributes) |->
                              Element(class_info.attributes[i].name,
                                      class_info.attributes[i].type, <<>>)])]

\* ConfigXMLGenerator.generate at recursion depth `depth`; ok is FALSE when
\* the recursion limit is exceeded (RecursionError).
RECURSIVE ConfigXMLGenerator_generate(_, _, _)
ConfigXMLGenerator_generate(cls, name, depth) ==
    IF depth > RecursionLimit THEN [ok |-> FALSE, elem |-> NoElement]
    ELSE
    LET class_info == cls.info[name]
        attrs == [i \in 1..Len(class_info.attributes) |->
                    Element(class_info.attributes[i].name,
                            class_info.attributes[i].type, <<>>)]
        kids == [i \in 1..Len(class_info.children) |->
                    ConfigXMLGenerator_generate(cls, class_info.children[i], depth + 1)]
    IN  IF \E i \in 1..Len(kids) : ~kids[i].ok
        THEN [ok |-> FALSE, elem |-> NoElement]
        ELSE [ok |-> TRUE,
              elem |-> Element(class_info.name, None,
                               attrs \o [i \in 1..Len(kids) |-> kids[i].elem])]

MetaChildrenFirst(cls) ==
    [i \in 1..Len(cls.order) |->
        LET c == cls.info[cls.order[i]]
        IN  [class |-> c.name, documentation |-> c.documentation, isRoot |-> c.is_root,
             max |-> c.max, min |-> c.min,
             parameters |->
                [j \in 1..Len(c.children) |->
                    [name |-> cls.info[c.children[j]].name, type |-> "class"]]
                \o [j \in 1..Len(c.attributes) |->
                    [name |-> c.attributes[j].name, type |-> c.attributes[j].type]]]]

\* MetaJSONGenerator.generate
MetaJSONGenerator_generate(cls) ==
    [i \in 1..Len(cls.order) |->
        LET c == cls.info[cls.order[i]]
        IN  [class |-> c.name, documentation |-> c.documentation, isRoot |-> c.is_root,
             max |-> c.max, min |-> c.min,
             parameters |->
                [j \in 1..Len(c.attributes) |->
                    [name |-> c.attributes[j].name, type |-> c.attributes[j].type]]
                \o [j \in 1..Len(c.children) |->
                    [name |-> cls.info[c.children[j]].name, type |-> "class"]]]]

\* ------------------------------------------------------------ the inputs
InputFiles == {"impulse_test_input.xml", "config.json", "patched_config.json"}

OutputFiles == {"config.xml", "meta.json", "delta.json", "res_patched_config.json"}

ClassElem(name, isRoot, attributes) ==
    [tag |-> "Class", name |-> name, isRoot |-> isRoot, documentation |-> "doc",
     attributes |-> attributes]

AggElem(source, target, sourceMultiplicity, targetMultiplicity) ==
    [tag |-> "Aggregation", source |-> source, target |-> target,
     sourceMultiplicity |-> sourceMultiplicity,
     targetMultiplicity |-> targetMultiplicity]

AttrsA == <<[name |-> "id", type |-> "int"], [name |-> "title", type |-> "string"]>>
AttrsB == <<[name |-> "size", type |-> "int"]>>

\* The class declarations of an input, in document order: a root with two
\* plain classes; a root that is not declared first and an undeclared C; no
\* root; two roots; a class declared twice.
DeclDocs ==
    { <<ClassElem("A", "true", AttrsA), ClassElem("B", "false", AttrsB),
        ClassElem("C", "false", <<>>)>>,
      <<ClassElem("B", "false", AttrsB), ClassElem("A", "true", AttrsA)>>,
      <<ClassElem("A", "false", AttrsA), ClassElem("B", "false", AttrsB),
        ClassElem("C", "false", <<>>)>>,
      <<ClassElem("C", "false", <<>>), ClassElem("B", "true", AttrsB),
        ClassElem("A", "true", AttrsA)>>,
      <<ClassElem("A", "false", <<>>), ClassElem("B", "false", AttrsB),
        ClassElem("A", "true", AttrsA)>> }

M1 == <<"1">>
M01 == <<"0", ".", ".", "1">>
M0s == <<"0", ".", ".", "*">>
M1s == <<"1", ".", ".", "*">>
MDots == <<".", ".">>
M1d2 == <<"1", ".", ".", ".", "2">>
M123 == <<"1", ".", ".", "2", ".", ".", "3">>
M4Dots == <<".", ".", ".", ".">>

MultStrings == {M1, M01, M0s, M1s, MDots, M1d2, M123, M4Dots, Absent}

Doc(elems) == [ok |-> TRUE, elems |-> elems]

MalformedDoc == [ok |-> FALSE, elems |-> <<>>]

DefaultDoc ==
    Doc(<<ClassElem("A", "true", AttrsA), ClassElem("B", "false", AttrsB),
          AggElem("B", "A", M01, M1)>>)

EmptyMap == [k \in {} |-> 0]

Json(m) == [ok |-> TRUE, map |-> m]

MalformedJson == [ok |-> FALSE, map |-> EmptyMap]

DefaultConfig == Json([k \in {"a", "b"} |-> IF k = "a" THEN "1" ELSE "2"])

DefaultPatched == Json([k \in {"b", "c"} |-> "1"])

EmptyDelta == [additions |-> <<>>, deletions |-> <<>>, updates |-> <<>>]

\* The state at the start of main() for the given inputs.
InitWith(files, xml, cj, pj) ==
    /\ pc = "check_files"
    /\ exists_ = files
    /\ xml_doc = xml
    /\ config_json = cj
    /\ patched_json = pj
    /\ classes = EmptyDict
    /\ aggregations = <<>>
    /\ root_class = None
    /\ config_root = NoElement
    /\ meta = <<>>
    /\ config = EmptyMap
    /\ patched_config = EmptyMap
    /\ delta = EmptyDelta
    /\ res_patched = EmptyMap
    /\ out = {}
    /\ error = None
    /\ exit_status = -1

AllPresent == [f \in InputFiles |-> TRUE]

\* ------------------------------------------------------------ main()
Fail(e) ==
    /\ pc' = "exit"
    /\ error' = e
    /\ exit_status' = 1

CheckOnlyXml ==
    /\ pc = "check_files"
    /\ IF ~exists_["impulse_test_input.xml"]
       THEN Fail("FileNotFoundError")
       ELSE pc' = "parse_xml" /\ UNCHANGED <<error, exit_status>>
    /\ UNCHANGED <<exists_, xml_doc, config_json, patched_json, classes, aggregations,
                   root_class, config_root, meta, config, patched_config, delta,
                   res_patched, out>>

\* for file in required_files: if not os.path.exists(file): raise
CheckRequiredFiles ==
    /\ pc = "check_files"
    /\ IF \E f \in InputFiles : ~exists_[f]
       THEN Fail("FileNotFoundError")
       ELSE pc' = "parse_xml" /\ UNCHANGED <<error, exit_status>>
    /\ UNCHANGED <<exists_, xml_doc, config_json, patched_json, classes, aggregations,
                   root_class, config_root, meta, config, patched_config, delta,
                   res_patched, out>>

\* parser = ModelParser(...): ET.parse, then parse_xml's three loops
ModelParserInit ==
    /\ pc = "parse_xml"
    /\ IF ~exists_["impulse_test_input.xml"]
       THEN Fail("FileNotFoundError") /\ UNCHANGED <<classes, aggregations>>
       ELSE IF ~xml_doc.ok
       THEN Fail("ParseError") /\ UNCHANGED <<classes, aggregations>>
       ELSE LET r == parse_xml(xml_doc.elems)
            IN  /\ classes' = r.classes
                /\ aggregations' = r.aggregations
                /\ IF r.error # None THEN Fail(r.error)
                   ELSE pc' = "get_root" /\ UNCHANGED <<error, exit_status>>
    /\ UNCHANGED <<exists_, xml_doc, config_json, patched_json, root_class,
                   config_root, meta, config, patched_config, delta, res_patched, out>>

\* root_class = parser.get_root_class()
GetRootClass ==
    /\ pc = "get_root"
    /\ LET r == get_root_class(classes)
       IN  /\ root_class' = r
           /\ IF r = None THEN Fail("StopIteration")
              ELSE pc' = "generate_xml" /\ UNCHANGED <<error, exit_status>>
    /\ UNCHANGED <<exists_, xml_doc, config_json, patched_json, classes, aggregations,
                   config_root, meta, config, patched_config, delta, res_patched, out>>

\* config_root = ConfigXMLGenerator.generate(root_class)
GenerateConfigXml ==
    /\ pc = "generate_xml"
    /\ LET r == ConfigXMLGenerator_generate(classes, root_class, 1)
       IN  IF r.ok
           THEN /\ config_root' = r.elem
                /\ pc' = "save_xml"
                /\ UNCHANGED <<error, exit_status>>
           ELSE Fail("RecursionError") /\ UNCHANGED config_root
    /\ UNCHANGED <<exists_, xml_doc, config_json, patched_json, classes, aggregations,
                   root_class, meta, config, patched_config, delta, res_patched, out>>

SaveSkip(at, file, next) ==
    /\ pc = at
    /\ pc' = next
    /\ UNCHANGED <<exists_, xml_doc, config_json, patched_json, classes, aggregations,
                   root_class, config_root, meta, config, patched_config, delta,
                   res_patched, out, error, exit_status>>

\* The save(...) of one generator: the file is opened for writing and written.
Save(at, file, next) ==
    /\ pc = at
    /\ out' = out \cup {file}
    /\ pc' = next
    /\ UNCHANGED <<exists_, xml_doc, config_json, patched_json, classes, aggregations,
                   root_class, config_root, meta, config, patched_config, delta,
                   res_patched, error, exit_status>>

SaveConfigXml == Save("save_xml", "config.xml", "generate_meta")

\* meta = MetaJSONGenerator.generate(parser.classes)
GenerateMeta ==
    /\ pc = "generate_meta"
    /\ meta' = MetaJSONGenerator_generate(classes)
    /\ pc' = "save_meta"
    /\ UNCHANGED <<exists_, xml_doc, config_json, patched_json, classes, aggregations,
                   root_class, config_root, config, patched_config, delta,
                   res_patched, out, error, exit_status>>

SaveMeta == Save("save_meta", "meta.json", "load_config")

\* with open(...) as f: config = json.load(f)
LoadConfig ==
    /\ pc = "load_config"
    /\ IF ~exists_["config.json"]
       THEN Fail("FileNotFoundError") /\ UNCHANGED config
       ELSE IF config_json.ok
       THEN /\ config' = json_load("config", config_json.map)
            /\ pc' = "load_patched"
            /\ UNCHANGED <<error, exit_status>>
       ELSE Fail("JSONDecodeError") /\ UNCHANGED config
    /\ UNCHANGED <<exists_, xml_doc, config_json, patched_json, classes, aggregations,
                   root_class, config_root, meta, patched_config, delta, res_patched, out>>

\* with open(...) as f: patched_config = json.load(f)
LoadPatchedConfig ==
    /\ pc = "load_patched"
    /\ IF ~exists_["patched_config.json"]
       THEN Fail("FileNotFoundError") /\ UNCHANGED patched_config
       ELSE IF patched_json.ok
       THEN /\ patched_config' = json_load("patched", patched_json.map)
            /\ pc' = "generate_delta"
            /\ UNCHANGED <<error, exit_status>>
       ELSE Fail("JSONDecodeError") /\ UNCHANGED patched_config
    /\ UNCHANGED <<exists_, xml_doc, config_json, patched_json, classes, aggregations,
                   root_class, config_root, meta, config, delta, res_patched, out>>

\* delta = DeltaJSONGenerator.generate(config, patched_config)
GenerateDelta ==
    /\ pc = "generate_delta"
    /\ \E a \in Orders(DOMAIN patched_config \ DOMAIN config),
          d \in Orders(DOMAIN config \ DOMAIN patched_config),
          u \in Orders(DOMAIN config \cap DOMAIN patched_config) :
          delta' = DeltaJSONGenerator_generate(config, patched_config, a, d, u)
    /\ pc' = "save_delta"
    /\ UNCHANGED <<exists_, xml_doc, config_json, patched_json, classes, aggregations,
                   root_class, config_root, meta, config, patched_config,
                   res_patched, out, error, exit_status>>

SaveDelta == Save("save_delta", "delta.json", "generate_res")

\* res_patched = ResPatchedConfigGenerator.generate(config, delta)
GenerateResPatched ==
    /\ pc = "generate_res"
    /\ res_patched' = ResPatchedConfigGenerator_generate(config, delta)
    /\ pc' = "save_res"
    /\ UNCHANGED <<exists_, xml_doc, config_json, patched_json, classes, aggregations,
                   root_class, config_root, meta, config, patched_config, delta,
                   out, error, exit_status>>

\* The last save; main() returns and the process exits with status 0.
SaveResPatched ==
    /\ pc = "save_res"
    /\ out' = out \cup {"res_patched_config.json"}
    /\ pc' = "done"
    /\ exit_status' = 0
    /\ UNCHANGED <<exists_, xml_doc, config_json, patched_json, classes, aggregations,
                   root_class, config_root, meta, config, patched_config, delta,
                   res_patched, error>>

Next ==
    \/ CheckRequiredFiles
    \/ ModelParserInit
    \/ GetRootClass
    \/ GenerateConfigXml
    \/ SaveConfigXml
    \/ GenerateMeta
    \/ SaveMeta
    \/ LoadConfig
    \/ LoadPatchedConfig
    \/ GenerateDelta
    \/ SaveDelta
    \/ GenerateResPatched
    \/ SaveResPatched

\* ------------------------------------------------------- specifications
\* Whole runs of main(): every combination of missing files and malformed
\* inputs, and models whose aggregations precede or follow the classes.
MainAggs ==
    {AggElem(s, t, m, M1) : s \in ClassNames, t \in {"A", "B"}, m \in {M1, M123, Absent}}

JsonCases ==
    {<<DefaultConfig, DefaultPatched>>, <<MalformedJson, DefaultPatched>>,
     <<DefaultConfig, MalformedJson>>}

Init ==
    \/ \E files \in [InputFiles -> BOOLEAN], xml \in {MalformedDoc, DefaultDoc},
          cj \in {MalformedJson, DefaultConfig}, pj \in {MalformedJson, DefaultPatched} :
          InitWith(files, xml, cj, pj)
    \/ \E decls \in DeclDocs, aggs \in SeqsUpTo(MainAggs, MaxAggs),
          aggs_first \in BOOLEAN, j \in JsonCases :
          InitWith(AllPresent,
                   Doc(IF aggs_first THEN aggs \o decls ELSE decls \o aggs),
                   j[1], j[2])

Spec == Init /\ [][Next]_vars

\* Model building and generation over every containment structure.
ModelAggs ==
    {AggElem(s, t, m, M1s) : s \in ClassNames, t \in ClassNames, m \in {M1, M0s}}

InitModel ==
    \E decls \in DeclDocs, aggs \in SeqsUpTo(ModelAggs, MaxAggs) :
        InitWith(AllPresent, Doc(decls \o aggs), DefaultConfig, DefaultPatched)

SpecModel == InitModel /\ [][Next]_vars

\* Model building over every multiplicity string.
MultAggs ==
    {AggElem(s, "A", m, tm) : s \in {"B", "C"}, m \in MultStrings, tm \in {M1, M0s}}

BaseDecls ==
    <<ClassElem("A", "true", AttrsA), ClassElem("B", "false", AttrsB),
      ClassElem("C", "false", <<>>)>>

InitMult ==
    \E aggs \in SeqsUpTo(MultAggs, MaxAggs) :
        InitWith(AllPresent, Doc(BaseDecls \o aggs), DefaultConfig, DefaultPatched)

SpecMult == InitMult /\ [][Next]_vars

\* The delta engine over every pair of flat maps.
InitDelta ==
    \E base \in FlatMaps, patched \in FlatMaps :
        InitWith(AllPresent, DefaultDoc, Json(base), Json(patched))

SpecDelta == InitDelta /\ [][Next]_vars

\* ------------------------------------------------------------ the claims
DeltaDone == pc \in {"save_delta", "generate_res", "save_res", "done"}

ResDone == pc \in {"save_res", "done"}

BaseKeys == DOMAIN config
PatchedKeys == DOMAIN patched_config

\* C2: the delta's additions hold exactly one {key, value: patched[key]} per
\* key only in patched, its deletions exactly the keys only in base, its
\* updates exactly one {key, from: base[key], to: patched[key]} per shared
\* key with base[key] != patched[key]; a shared key with equal values is in
\* no bucket.
C2_Buckets ==
    DeltaDone =>
        /\ Range(delta.additions) =
              {[key |-> k, value |-> patched_config[k]] : k \in PatchedKeys \ BaseKeys}
        /\ Len(delta.additions) = Cardinality(PatchedKeys \ BaseKeys)
        /\ Range(delta.deletions) = BaseKeys \ PatchedKeys
        /\ Len(delta.deletions) = Cardinality(BaseKeys \ PatchedKeys)
        /\ Range(delta.updates) =
              {[key |-> k, from |-> config[k], to |-> patched_config[k]] :
                  k \in {x \in BaseKeys \cap PatchedKeys :
                            ~PyEq(config[x].val, patched_config[x].val)}}
        /\ Len(delta.updates) =
              Cardinality({x \in BaseKeys \cap PatchedKeys :
                              ~PyEq(config[x].val, patched_config[x].val)})
        /\ \A k \in BaseKeys \cap PatchedKeys :
              PyEq(config[k].val, patched_config[k].val) =>
                  /\ \A i \in 1..Len(delta.additions) : delta.additions[i].key # k
                  /\ \A i \in 1..Len(delta.deletions) : delta.deletions[i] # k
                  /\ \A i \in 1..Len(delta.updates) : delta.updates[i].key # k

\* A delta with an addition, a deletion and an update.
C2_Witness ==
    /\ pc = "save_delta"
    /\ Len(delta.additions) > 0 /\ Len(delta.deletions) > 0 /\ Len(delta.updates) > 0

\* A delta over maps that share a key with equal values.
C2_WitnessUnchanged ==
    /\ pc = "save_delta"
    /\ \E k \in BaseKeys \cap PatchedKeys : PyEq(config[k].val, patched_config[k].val)

\* C10: the delta of two equal maps is empty.
C10_EqualInputsEmpty ==
    (DeltaDone /\ config_json.map = patched_json.map) => delta = EmptyDelta

\* The round trip with the values compared as JSON values (1 and true differ).
C1_JsonValues ==
    ResDone => /\ DOMAIN res_patched = DOMAIN patched_config
               /\ \A k \in DOMAIN res_patched : res_patched[k].val = patched_config[k].val

\* The delta of two equal maps without NaN is empty.
C10_NoNaN ==
    (DeltaDone /\ config_json.map = patched_json.map
       /\ \A k \in DOMAIN config_json.map : config_json.map[k] # "NaN") => delta = EmptyDelta

\* The class and aggregation declarations of the input document.
DeclaredClasses == SelectSeq(xml_doc.elems, LAMBDA e : e.tag = "Class")

DeclaredEdges == SelectSeq(xml_doc.elems, LAMBDA e : e.tag = "Aggregation")

DeclaredNames == {DeclaredClasses[i].name : i \in 1..Len(DeclaredClasses)}

BuildErrors == {"FileNotFoundError", "ParseError", "KeyError", "ValueError", "TypeError"}

\* The model build has succeeded.
Built ==
    /\ pc \notin {"check_files", "parse_xml"}
    /\ ~(pc = "exit" /\ error \in BuildErrors)

Ended == pc \in {"done", "exit"}

\* C6: after a successful build, T.children is the sequence of the sources
\* of the edges whose target is T, in edge-declaration order, one entry per
\* edge; a class that is the target of no edge has no children.
C6_Children ==
    Built =>
        \A T \in DeclaredNames :
            LET into == SelectSeq(DeclaredEdges, LAMBDA e : e.target = T)
            IN  classes.info[T].children = [i \in 1..Len(into) |-> into[i].source]

\* A has the children C then B, from two edges declared in that order.
C6_Witness ==
    /\ pc = "done"
    /\ classes.info["A"].children = <<"C", "B">>
    /\ classes.info["B"].children = <<>>

\* ".." occurs in s.
HasDots(s) == \E j \in 1..(Len(s) - 1) : s[j] = "." /\ s[j + 1] = "."

\* (lo, hi) are two parts of s around a "..".
Around(s, lo, hi) == lo \o <<".", ".">> \o hi = s

\* C7: after a successful build a class that is the source of no edge has
\* min = max = "0"; otherwise (min, max) is the parse of the sourceMultiplicity
\* of the last edge it is the source of: the two parts around ".." when there
\* is one ("0..1" gives ("0","1"), "1..*" gives ("1","*")), else the string
\* twice ("1" gives ("1","1")); targetMultiplicity plays no part.
C7_Cardinality ==
    Built =>
        \A c \in DeclaredNames :
            LET from == SelectSeq(DeclaredEdges, LAMBDA e : e.source = c)
                s == from[Len(from)].sourceMultiplicity
                lo == classes.info[c].min
                hi == classes.info[c].max
            IN  IF Len(from) = 0 THEN lo = Str0 /\ hi = Str0
                ELSE /\ HasDots(s) => Around(s, lo, hi)
                     /\ ~HasDots(s) => lo = s /\ hi = s
                     /\ s = M01 => lo = <<"0">> /\ hi = <<"1">>
                     /\ s = M1s => lo = <<"1">> /\ hi = <<"*">>
                     /\ s = M1 => lo = <<"1">> /\ hi = <<"1">>

\* B is the source of two edges, "1" then "1..*", with differing target
\* multiplicities, and carries the bounds of the second.
C7_Witness ==
    /\ pc = "done"
    /\ Len(DeclaredEdges) = 2
    /\ DeclaredEdges[1].source = "B" /\ DeclaredEdges[1].sourceMultiplicity = M1
    /\ DeclaredEdges[2].source = "B" /\ DeclaredEdges[2].sourceMultiplicity = M1s
    /\ DeclaredEdges[2].targetMultiplicity = M1
    /\ classes.info["B"].min = <<"1">> /\ classes.info["B"].max = <<"*">>

\* The containment relation of the built model.
ChildSet(n) == Range(classes.info[n].children)

RECURSIVE Closure(_, _)
Closure(S, k) ==
    IF k = 0 THEN S ELSE Closure(S \cup UNION {ChildSet(x) : x \in S}, k - 1)

\* The classes reachable from n in one or more containment steps.
Descendants(n) == Closure(ChildSet(n), Cardinality(DOMAIN classes.info))

HasCycle == \E n \in DOMAIN classes.info : n \in Descendants(n)

CycleReachableFrom(r) == \E n \in {r} \cup Descendants(r) : n \in Descendants(n)

\* ConfigXMLGenerator.generate(root) has returned or raised.
RenderEnded ==
    \/ pc \in {"save_xml", "generate_meta", "save_meta", "load_config", "load_patched",
               "generate_delta", "save_delta", "generate_res", "save_res", "done"}
    \/ pc = "exit" /\ error \in {"RecursionError", "JSONDecodeError"}

Returned == RenderEnded /\ error # "RecursionError"

\* C8 as stated: the rendering returns a document whenever the children
\* relation is acyclic and never returns one whenever it contains a cycle.
C8_AnyCycle == RenderEnded => (Returned <=> ~HasCycle)

\* C8, amended: the rendering returns a document exactly when no cycle of the
\* children relation is reachable from the root it is given; a cycle among
\* classes the root does not contain does not stop it.
C8_ReachableCycle == RenderEnded => (Returned <=> ~CycleReachableFrom(root_class))

\* The rendering fails on a cycle that lies below the root, not through it.
C8_Witness ==
    /\ pc = "exit" /\ error = "RecursionError"
    /\ root_class \notin Descendants(root_class)

\* The rendering returns although the children relation has a cycle.
C8_WitnessUnreachable == pc = "save_xml" /\ HasCycle

MetaEnded ==
    pc \in {"save_meta", "load_config", "load_patched", "generate_delta", "save_delta",
            "generate_res", "save_res", "done"}
    \/ (pc = "exit" /\ error = "JSONDecodeError")

\* m is the complete flat metadata of the built model.
MetaComplete(m) ==
    /\ \A n \in DeclaredNames : Cardinality({i \in 1..Len(m) : m[i].class = n}) = 1
    /\ \A i \in 1..Len(m) : m[i].class \in DeclaredNames
    /\ \A i \in 1..Len(m) :
          LET c == classes.info[m[i].class]
              na == Len(c.attributes)
              nc == Len(c.children)
          IN  /\ Len(m[i].parameters) = na + nc
              /\ \A j \in 1..na :
                    m[i].parameters[j] =
                        [name |-> c.attributes[j].name, type |-> c.attributes[j].type]
              /\ \A j \in 1..nc :
                    m[i].parameters[na + j] = [name |-> c.children[j], type |-> "class"]

\* C9: for every model, cyclic or not, MetaJSONGenerator.generate emits
\* exactly one record per class of the class set and no other, and each
\* record's parameters are the attributes {name, type} in declaration order
\* followed by the children {name, type: "class"} in containment order.
C9_MetaComplete ==
    /\ Built => MetaComplete(MetaJSONGenerator_generate(classes))
    /\ MetaEnded => MetaComplete(meta)

\* Metadata written for a model with a containment cycle and a class that
\* has both attributes and children.
C9_Witness ==
    /\ pc = "save_meta"
    /\ HasCycle
    /\ \E i \in 1..Len(meta) :
          /\ Len(classes.info[meta[i].class].attributes) > 0
          /\ Len(classes.info[meta[i].class].children) > 0

\* C3 as stated: when the run ends, all four output files have been
\* written by it or none has.
C3_NoPartialSuccess == Ended => (out = OutputFiles \/ out = {})

\* C3, amended: when the run ends it has written all four output files if it
\* succeeded; none if it failed at a missing input, malformed model markup,
\* an unresolved aggregation reference, a missing or malformed multiplicity,
\* a missing root or an unbounded rendering recursion; and exactly config.xml and
\* meta.json if it failed at a malformed config.json or patched_config.json.
C3_WrittenByStage ==
    Ended =>
        /\ pc = "done" => out = OutputFiles /\ error = None
        /\ pc = "exit" => error # None
        /\ error \in {"FileNotFoundError", "ParseError", "KeyError", "ValueError",
                      "TypeError", "StopIteration", "RecursionError"} => out = {}
        /\ error = "JSONDecodeError" => out = {"config.xml", "meta.json"}
        /\ error = "JSONDecodeError" <=>
              (pc = "exit" /\ Built /\ Returned /\ (~config_json.ok \/ ~patched_json.ok))

\* A run that ends at a malformed patched_config.json after writing two files.
C3_Witness ==
    /\ pc = "exit" /\ error = "JSONDecodeError"
    /\ config_json.ok /\ ~patched_json.ok
    /\ out = {"config.xml", "meta.json"}

\* C4: if one of the three input files does not exist when main() starts,
\* the run ends with a non-zero exit status and writes no output file,
\* whichever file is missing and whatever the others contain.
C4_MissingFile ==
    (\E f \in InputFiles : ~exists_[f]) =>
        /\ out = {}
        /\ pc \in {"check_files", "exit"}
        /\ pc = "exit" => exit_status = 1 /\ error = "FileNotFoundError"

\* A run ended by a missing patched_config.json, the other inputs being good.
C4_Witness ==
    /\ pc = "exit" /\ exit_status = 1
    /\ ~exists_["patched_config.json"]
    /\ exists_["impulse_test_input.xml"] /\ exists_["config.json"]
    /\ xml_doc.ok /\ config_json.ok

Resolved(e) == e.source \in DeclaredNames /\ e.target \in DeclaredNames

Unresolved == \E i \in 1..Len(DeclaredEdges) : ~Resolved(DeclaredEdges[i])

\* The multiplicity s is absent, or has ".." and not exactly two parts.
MalformedMultiplicity(s) == s = Absent \/ (HasDots(s) /\ Len(split(s)) # 2)

\* The first edge, in declaration order, that names an undeclared class or
\* has a malformed multiplicity; 0 when there is none.
FirstBadEdge ==
    LET bad == {i \in 1..Len(DeclaredEdges) :
                   \/ ~Resolved(DeclaredEdges[i])
                   \/ MalformedMultiplicity(DeclaredEdges[i].sourceMultiplicity)}
    IN  IF bad = {} THEN 0 ELSE CHOOSE i \in bad : \A j \in bad : i <= j

ParsedRun == Ended /\ (\A f \in InputFiles : exists_[f]) /\ xml_doc.ok

\* C5 as stated: an edge naming an undeclared class makes the build fail
\* with a lookup error before any output; with every name declared there is
\* no lookup error, wherever the classes are declared.
C5_LookupError ==
    ParsedRun =>
        IF Unresolved THEN pc = "exit" /\ error = "KeyError" /\ out = {}
        ELSE error # "KeyError"

\* C5, amended: an edge naming an undeclared class makes the build fail and
\* the run end before any output is written, with a lookup error unless an
\* edge declared before it has a missing or malformed multiplicity, whose
\* own error then ends the build first; with every name declared there is no
\* lookup error, wherever the classes are declared.
C5_DeclareThenLink ==
    ParsedRun =>
        IF Unresolved
        THEN LET e == DeclaredEdges[FirstBadEdge]
             IN  /\ pc = "exit" /\ out = {}
                 /\ error = (IF ~Resolved(e) THEN "KeyError"
                             ELSE IF e.sourceMultiplicity = Absent THEN "TypeError"
                             ELSE "ValueError")
        ELSE error # "KeyError"

\* A lookup error ends a run whose classes are all declared before the edges.
C5_Witness ==
    /\ pc = "exit" /\ error = "KeyError" /\ out = {}
    /\ Len(DeclaredEdges) > 0
    /\ xml_doc.elems[1].tag = "Class"

\* A run succeeds although its edges are declared before its classes.
C5_WitnessAnyPosition ==
    /\ pc = "done"
    /\ Len(DeclaredEdges) > 0
    /\ xml_doc.elems[1].tag = "Aggregation"

====
